---- MODULE Spec2Model ----
(***************************************************************************)
(* PreloadPlugin (src/index.js): the addLinks pipeline that turns the      *)
(* chunks of a compilation into <link> tags of one HTML document, and the  *)
(* apply() registration of the document handlers with the host compiler.   *)
(*                                                                         *)
(* JavaScript strings that the code concatenates, sorts or matches (file   *)
(* paths, the public path, hrefs) are sequences of one-character strings;  *)
(* strings the code only compares for equality (rel, include, version      *)
(* identifiers, document names) are TLA+ strings.                          *)
(***************************************************************************)
EXTENDS Integers, Sequences, FiniteSets, TLC

VARIABLES
    options,      \* this.options of the plugin instance
    compiler,     \* the host compiler apply() was given: "none" before apply()
    compilation,  \* the compilation the host created
    tapped,       \* the document handler apply() registered: "none", "v4", "v3"
    escaped,      \* the exception that left the compilation callback
    last,         \* the last addLinks call or document event, with what it did
    docs,         \* document events delivered so far
    failed        \* whether addLinks raised in an earlier document event

vars == <<options, compiler, compilation, tapped, escaped, last, docs, failed>>

(* Bounds of the model. *)
MaxChunks == 2
MaxDocs == 2

----------------------------------------------------------------------------
(* JavaScript values. *)

Undefined == "undefined"

NoError == [name |-> "none", supported |-> {}]

TypeError == [name |-> "TypeError", supported |-> {}]

CallbackError == [name |-> "CallbackError", supported |-> {}]

Lower == <<"a", "b", "c", "d", "e", "f", "g", "h", "i", "j", "k", "l", "m",
           "n", "o", "p", "q", "r", "s", "t", "u", "v", "w", "x", "y", "z">>

(* The UTF-16 code unit of a character. *)
CodeUnit(c) ==
    IF c = "#" THEN 35
    ELSE IF c = "." THEN 46
    ELSE IF c = "/" THEN 47
    ELSE IF c = "2" THEN 50
    ELSE IF c = "?" THEN 63
    ELSE IF c = "Z" THEN 90
    ELSE 96 + (CHOOSE i \in 1..26 : Lower[i] = c)

(* A comparison by length alone. *)
ShorterFirst(x, y) == Len(x) < Len(y)

(* x < y on strings: the comparison Array.prototype.sort makes without a   *)
(* comparator (code unit by code unit, a proper prefix first).             *)
RECURSIVE StringLess(_, _)
StringLess(x, y) ==
    IF y = <<>> THEN FALSE
    ELSE IF x = <<>> THEN TRUE
    ELSE IF CodeUnit(Head(x)) < CodeUnit(Head(y)) THEN TRUE
    ELSE IF CodeUnit(Head(x)) > CodeUnit(Head(y)) THEN FALSE
    ELSE StringLess(Tail(x), Tail(y))

EndsWith(s, suffix) ==
    /\ Len(suffix) <= Len(s)
    /\ SubSeq(s, Len(s) - Len(suffix) + 1, Len(s)) = suffix

(* Array.prototype.includes *)
Includes(arr, x) == \E i \in 1..Len(arr) : arr[i] = x

----------------------------------------------------------------------------
(* The inputs. *)

AppJs == <<"a", "p", "p", ".", "j", "s">>

AppCss == <<"a", "p", "p", ".", "c", "s", "s">>

FontWoff2 == <<"f", "o", "n", "t", ".", "w", "o", "f", "f", "2">>

ZApp == <<"Z", "a", "p", "p">>

App == <<"a", "p", "p">>

Dist == <<"/", "d", "i", "s", "t", "/">>

(* chunk.files of the chunks a compilation may hold *)
FileLists == {<<>>, <<AppJs, AppCss>>, <<FontWoff2, AppJs>>, <<ZApp, App>>}

RECURSIVE ChunkLists(_)
ChunkLists(n) ==
    IF n = 0 THEN {<<>>}
    ELSE ChunkLists(n - 1) \cup
         {Append(cs, [id |-> Len(cs) + 1, files |-> fs]) :
              cs \in {c \in ChunkLists(n - 1) : Len(c) = n - 1}, fs \in FileLists}

(* A pattern /<suffix>$/ without the g or y flag. *)
JsPattern == [suffix |-> <<".", "j", "s">>]

CssPattern == [suffix |-> <<".", "c", "s", "s">>]

Woff2Pattern == [suffix |-> <<".", "w", "o", "f", "f", "2">>]

NoList == [defined |-> FALSE, patterns |-> <<>>]

List(ps) == [defined |-> TRUE, patterns |-> ps]

Whitelists == {NoList, List(<<>>), List(<<JsPattern, Woff2Pattern>>)}

Blacklists == {NoList, List(<<>>), List(<<CssPattern>>)}

NoAssets == [defined |-> FALSE, chunks |-> {}]

Assets(ids) == [defined |-> TRUE, chunks |-> ids]

Markup(text) == [markup |-> text]

Document == <<Markup("<html>"), Markup("<head>"), Markup("</HEAD>"), Markup("<body>"), Markup("</body>")>>

(* htmlPluginData: plugin.options.filename, assets.chunks and html *)
Payloads ==
    [filename : {"index.html", "skip.html"},
     assets : {NoAssets, Assets({}), Assets({1})},
     html : {Document}]

----------------------------------------------------------------------------
(* The collaborators under ./lib, as the specification describes them. *)

(* Object.keys(doesChunkBelongToHTML): one association variant per version *)
DoesChunkBelongToHTMLKeys == {"v3", "v4"}

(* Property names doesChunkBelongToHTML, an ordinary object, inherits from *)
(* Object.prototype (one of them stands for all).                          *)
ObjectPrototypeKeys == {"toString"}

(* The chunk group of a chunk: chunks 1 and 2 share a group, 3 and 4 the next. *)
GroupOf(id) == (id + 1) \div 2

(* doesChunkBelongToHTML[webpackVersion]({chunk, compilation, htmlAssetsChunks}), *)
(* as a truth value: v3 is direct inclusion in assets.chunks, v4 is chunk   *)
(* group membership; Object.prototype.toString returns a non-empty string.  *)
DoesChunkBelongToHTML(webpackVersion, chunk, comp, htmlAssetsChunks) ==
    IF webpackVersion = "v3" THEN chunk.id \in htmlAssetsChunks
    ELSE IF webpackVersion = "v4"
         THEN \E h \in htmlAssetsChunks : GroupOf(h) = GroupOf(chunk.id)
    ELSE TRUE

(* extractChunks({compilation, optionsInclude}): every chunk of the compilation *)
ExtractChunks(comp, optionsInclude) == comp.chunks

(* The extension of the URL's path: query string and hash do not count. *)
ExtName(href) ==
    LET stops == {i \in 1..Len(href) : href[i] \in {"?", "#"}}
        path == IF stops = {} THEN href
                ELSE SubSeq(href, 1, (CHOOSE i \in stops : \A j \in stops : i <= j) - 1)
        dots == {i \in 2..Len(path) :
                    /\ path[i] = "."
                    /\ path[i - 1] # "/"
                    /\ \A j \in (i + 1)..Len(path) : path[j] \notin {".", "/"}}
    IN  IF dots = {} THEN <<>>
        ELSE SubSeq(path, CHOOSE i \in dots : TRUE, Len(path))

(* determineAsValue({href, optionsAs}): the override wins, else the extension *)
(* table, else no value.                                                     *)
DetermineAsValue(href, optionsAs) ==
    IF optionsAs # Undefined THEN optionsAs
    ELSE LET ext == ExtName(href)
         IN  IF ext = <<".", "j", "s">> THEN "script"
             ELSE IF ext = <<".", "c", "s", "s">> THEN "style"
             ELSE IF ext = <<".", "w", "o", "f", "f", "2">> THEN "font"
             ELSE Undefined

(* createHTMLElementString({attributes, elementName}): the element with its *)
(* attributes in insertion order, each with its literal value; an attribute *)
(* without a value is omitted.                                              *)
CreateHTMLElementString(attributes, elementName) ==
    [element |-> elementName,
     rendered |-> SelectSeq(attributes, LAMBDA a : a[2] # <<Undefined>>)]

IsClosingHead(token) ==
    /\ "markup" \in DOMAIN token
    /\ token.markup \in {"</head>", "</HEAD>"}

(* insertLinksIntoHead({links, html}): the links as one block right before *)
(* the first closing head tag; a document without one is returned as is.   *)
InsertLinksIntoHead(links, html) ==
    LET heads == {i \in 1..Len(html) : IsClosingHead(html[i])}
    IN  IF heads = {} THEN html
        ELSE LET at == CHOOSE i \in heads : \A j \in heads : i <= j
             IN  SubSeq(html, 1, at - 1) \o links \o SubSeq(html, at, Len(html))

----------------------------------------------------------------------------
(* PreloadPlugin.addLinks *)

(* webpackVersion in doesChunkBelongToHTML: own and inherited properties *)
VersionInDoesChunkBelongToHTML(webpackVersion) ==
    webpackVersion \in DoesChunkBelongToHTMLKeys \cup ObjectPrototypeKeys

AssertionError == [name |-> "AssertionError", supported |-> DoesChunkBelongToHTMLKeys]

(* No document is excluded. *)
NeverExcluded(opts, htmlPluginData) == FALSE

(* options.excludeHtmlNames.includes(htmlPluginData.plugin.options.filename) *)
IsExcluded(opts, htmlPluginData) ==
    Includes(opts.excludeHtmlNames, htmlPluginData.filename)

(* The filter callback's argument reads htmlPluginData.assets.chunks: with *)
(* assets undefined it raises a TypeError at the first chunk.              *)
AssociationThrows(opts, extractedChunks, htmlPluginData) ==
    /\ opts.include # "allAssets"
    /\ extractedChunks # <<>>
    /\ ~htmlPluginData.assets.defined

(* Calls of the association variant in one addLinks call. *)
AssociationCalls(opts, extractedChunks) ==
    IF opts.include = "allAssets" THEN 0 ELSE Len(extractedChunks)

(* The association filter applied in every include mode. *)
HtmlChunksAlwaysFiltered(opts, webpackVersion, comp, extractedChunks, htmlPluginData) ==
    SelectSeq(extractedChunks,
              LAMBDA chunk : DoesChunkBelongToHTML(webpackVersion, chunk, comp,
                                                   htmlPluginData.assets.chunks))

HtmlChunks(opts, webpackVersion, comp, extractedChunks, htmlPluginData) ==
    IF opts.include = "allAssets"
    THEN extractedChunks
    ELSE SelectSeq(extractedChunks,
                   LAMBDA chunk : DoesChunkBelongToHTML(webpackVersion, chunk, comp,
                                                        htmlPluginData.assets.chunks))

(* htmlChunks.reduce((accumulated, chunk) => accumulated.concat(chunk.files), []) *)
RECURSIVE AllFiles(_)
AllFiles(htmlChunks) ==
    IF htmlChunks = <<>> THEN <<>>
    ELSE AllFiles(SubSeq(htmlChunks, 1, Len(htmlChunks) - 1))
             \o htmlChunks[Len(htmlChunks)].files

(* [...new Set(allFiles)]: the first occurrence of each file, in order *)
RECURSIVE UniqueFiles(_)
UniqueFiles(allFiles) ==
    IF allFiles = <<>> THEN <<>>
    ELSE LET front == UniqueFiles(SubSeq(allFiles, 1, Len(allFiles) - 1))
             file == allFiles[Len(allFiles)]
         IN  IF Includes(front, file) THEN front ELSE Append(front, file)

(* regex.test(file) for the patterns of the model *)
RegexTest(regex, file) == EndsWith(file, regex.suffix)

(* An empty whitelist taken for an absent one. *)
PassesWhitelistOrEmpty(opts, file) ==
    \/ ~opts.fileWhitelist.defined
    \/ opts.fileWhitelist.patterns = <<>>
    \/ \E i \in 1..Len(opts.fileWhitelist.patterns) :
           RegexTest(opts.fileWhitelist.patterns[i], file)

PassesWhitelist(opts, file) ==
    \/ ~opts.fileWhitelist.defined
    \/ \E i \in 1..Len(opts.fileWhitelist.patterns) :
           RegexTest(opts.fileWhitelist.patterns[i], file)

PassesBlacklist(opts, file) ==
    \/ ~opts.fileBlacklist.defined
    \/ \A i \in 1..Len(opts.fileBlacklist.patterns) :
           ~RegexTest(opts.fileBlacklist.patterns[i], file)

FilteredFiles(opts, uniqueFiles) ==
    SelectSeq(SelectSeq(uniqueFiles, LAMBDA file : PassesWhitelist(opts, file)),
              LAMBDA file : PassesBlacklist(opts, file))

RECURSIVE InsertSorted(_, _)
InsertSorted(sorted, file) ==
    IF sorted = <<>> THEN <<file>>
    ELSE IF StringLess(file, Head(sorted)) THEN <<file>> \o sorted
    ELSE <<Head(sorted)>> \o InsertSorted(Tail(sorted), file)

(* The files left in the order of the set. *)
UnsortedFilteredFiles(filteredFiles) == filteredFiles

(* filteredFiles.sort() *)
RECURSIVE SortedFilteredFiles(_)
SortedFilteredFiles(filteredFiles) ==
    IF filteredFiles = <<>> THEN <<>>
    ELSE InsertSorted(SortedFilteredFiles(SubSeq(filteredFiles, 1, Len(filteredFiles) - 1)),
                      filteredFiles[Len(filteredFiles)])

(* compilation.outputOptions.publicPath || '' *)
PublicPath(comp) ==
    IF comp.publicPath.defined THEN comp.publicPath.value ELSE <<>>

(* crossorigin set on every preload link, whatever its `as`. *)
AttributesAlwaysCrossorigin(opts, publicPath, file) ==
    LET href == publicPath \o file
        as == DetermineAsValue(href, opts.as)
    IN  <<<<"href", href>>, <<"rel", <<opts.rel>>>>>>
        \o (IF opts.rel = "preload"
            THEN <<<<"as", <<as>>>>, <<"crossorigin", <<"anonymous">>>>>> ELSE <<>>)

(* The attributes object of one file, as its properties in insertion order. *)
Attributes(opts, publicPath, file) ==
    LET href == publicPath \o file
        as == DetermineAsValue(href, opts.as)
    IN  <<<<"href", href>>, <<"rel", <<opts.rel>>>>>>
        \o (IF opts.rel = "preload" THEN <<<<"as", <<as>>>>>> ELSE <<>>)
        \o (IF opts.rel = "preload" /\ as = "font"
            THEN <<<<"crossorigin", <<"anonymous">>>>>> ELSE <<>>)

Links(opts, publicPath, sortedFilteredFiles) ==
    [i \in 1..Len(sortedFilteredFiles) |->
        CreateHTMLElementString(Attributes(opts, publicPath, sortedFilteredFiles[i]), "link")]

(* What one call of addLinks did, when nothing has run yet. *)
NothingRan(htmlPluginData) ==
    [threw |-> NoError, exit |-> "", returned |-> FALSE, html |-> htmlPluginData.html,
     extractCalls |-> 0, associationCalls |-> 0, injectCalls |-> 0,
     extractedChunks |-> <<>>, htmlChunks |-> <<>>, allFiles |-> <<>>,
     sortedFilteredFiles |-> <<>>, attributes |-> <<>>, links |-> <<>>]

(* addLinks(webpackVersion, compilation, htmlPluginData): the error it raised, *)
(* whether it returned htmlPluginData, htmlPluginData.html after the call and  *)
(* the intermediate values of the pipeline.                                    *)
AddLinks(opts, webpackVersion, comp, htmlPluginData) ==
    LET none == NothingRan(htmlPluginData)
        extractedChunks == ExtractChunks(comp, opts.include)
        htmlChunks == HtmlChunks(opts, webpackVersion, comp, extractedChunks, htmlPluginData)
        allFiles == AllFiles(htmlChunks)
        sortedFilteredFiles == SortedFilteredFiles(FilteredFiles(opts, UniqueFiles(allFiles)))
        publicPath == PublicPath(comp)
        links == Links(opts, publicPath, sortedFilteredFiles)
    IN  IF ~VersionInDoesChunkBelongToHTML(webpackVersion)
        THEN [none EXCEPT !.threw = AssertionError, !.exit = "assert"]
        ELSE IF IsExcluded(opts, htmlPluginData)
        THEN [none EXCEPT !.returned = TRUE, !.exit = "excluded"]
        ELSE IF AssociationThrows(opts, extractedChunks, htmlPluginData)
        THEN [none EXCEPT !.threw = TypeError, !.exit = "association",
                          !.extractCalls = 1, !.extractedChunks = extractedChunks]
        ELSE [threw |-> NoError, exit |-> "end", returned |-> TRUE,
              html |-> InsertLinksIntoHead(links, htmlPluginData.html),
              extractCalls |-> 1,
              associationCalls |-> AssociationCalls(opts, extractedChunks),
              injectCalls |-> 1,
              extractedChunks |-> extractedChunks,
              htmlChunks |-> htmlChunks,
              allFiles |-> allFiles,
              sortedFilteredFiles |-> sortedFilteredFiles,
              attributes |-> [i \in 1..Len(sortedFilteredFiles) |->
                                 Attributes(opts, publicPath, sortedFilteredFiles[i])],
              links |-> links]

----------------------------------------------------------------------------
(* PreloadPlugin.apply *)

OrderingError == "Unable to tap into the HtmlWebpackPlugin's callbacks."

(* The callback apply() taps into compiler.hooks.compilation: the handler it *)
(* registers, compilation.errors after it, and the exception that leaves it. *)
CompilationCallback(opts, comp) ==
    IF comp.htmlHook = "htmlWebpackPluginAfterHtmlProcessing"
    THEN [tapped |-> "v4", errors |-> comp.errors, escaped |-> NoError]
    ELSE IF ~opts.HtmlWebpackPlugin
    THEN [tapped |-> "none", errors |-> comp.errors, escaped |-> TypeError]
    ELSE IF comp.htmlHook = "beforeEmit"
    THEN [tapped |-> "v4", errors |-> comp.errors, escaped |-> NoError]
    ELSE [tapped |-> "none", errors |-> Append(comp.errors, OrderingError),
          escaped |-> NoError]

(* One call of the host's callback. *)
CallbackCall(err, htmlPluginDataHtml) == [err |-> err, html |-> htmlPluginDataHtml]

(* A handler without the catch: the error of addLinks leaves it. *)
HandlerWithoutCatch(opts, webpackVersion, comp, htmlPluginData, callbackThrows) ==
    LET run == AddLinks(opts, webpackVersion, comp, htmlPluginData)
    IN  IF run.threw # NoError
        THEN [run |-> run, callbacks |-> <<>>, thrown |-> run.threw]
        ELSE [run |-> run,
              callbacks |-> <<CallbackCall(NoError, run.html)>>,
              thrown |-> IF callbackThrows THEN CallbackError ELSE NoError]

(* The handler of a document event, try { callback(null, this.addLinks(...)) } *)
(* catch (error) { callback(error) }: what addLinks did, the calls of the      *)
(* callback in order, and the exception that leaves the handler. A callback    *)
(* that throws does so on every call.                                          *)
Handler(opts, webpackVersion, comp, htmlPluginData, callbackThrows) ==
    LET run == AddLinks(opts, webpackVersion, comp, htmlPluginData)
    IN  IF run.threw # NoError
        THEN [run |-> run,
              callbacks |-> <<CallbackCall(run.threw, <<>>)>>,
              thrown |-> IF callbackThrows THEN CallbackError ELSE NoError]
        ELSE IF callbackThrows
        THEN [run |-> run,
              callbacks |-> <<CallbackCall(NoError, run.html), CallbackCall(CallbackError, <<>>)>>,
              thrown |-> CallbackError]
        ELSE [run |-> run,
              callbacks |-> <<CallbackCall(NoError, run.html)>>,
              thrown |-> NoError]

----------------------------------------------------------------------------
(* The state machine. *)

NoCompilation ==
    [created |-> FALSE, chunks |-> <<>>, publicPath |-> [defined |-> FALSE, value |-> <<>>],
     htmlHook |-> "none", errors |-> <<>>]

PublicPaths == {[defined |-> FALSE, value |-> <<>>], [defined |-> TRUE, value |-> Dist]}

Compilations(htmlHooks) ==
    [created : {TRUE}, chunks : ChunkLists(MaxChunks), publicPath : PublicPaths,
     htmlHook : htmlHooks, errors : {<<>>}]

(* Object.assign({}, defaultOptions, options) *)
Options(rels, includes, whitelists, blacklists, ases, plugins) ==
    [rel : rels, include : includes, fileWhitelist : whitelists,
     fileBlacklist : blacklists, as : ases, excludeHtmlNames : {<<"skip.html">>},
     HtmlWebpackPlugin : plugins]

Init ==
    /\ options \in Options({"preload"}, {"allAssets", "asyncChunks"}, {NoList}, {NoList},
                           {Undefined}, BOOLEAN)
    /\ compiler = "none"
    /\ compilation = NoCompilation
    /\ tapped = "none"
    /\ escaped = NoError
    /\ last = [kind |-> "none"]
    /\ docs = 0
    /\ failed = FALSE

(* apply(compiler): the compilation callback is registered with the host. *)
Apply ==
    /\ compiler = "none"
    /\ compiler' \in {"hooks", "legacy"}
    /\ UNCHANGED <<options, compilation, tapped, escaped, last, docs, failed>>

(* webpack v4+ creates a compilation and runs the tapped callback. *)
CompilationHook ==
    /\ compiler = "hooks"
    /\ ~compilation.created
    /\ \E comp \in Compilations({"htmlWebpackPluginAfterHtmlProcessing", "beforeEmit", "none"}) :
          LET done == CompilationCallback(options, comp)
          IN  /\ compilation' = [comp EXCEPT !.errors = done.errors]
              /\ tapped' = done.tapped
              /\ escaped' = done.escaped
    /\ UNCHANGED <<options, compiler, last, docs, failed>>

(* webpack before v4 creates a compilation: the callback registers the v3 handler. *)
CompilationPlugin ==
    /\ compiler = "legacy"
    /\ ~compilation.created
    /\ compilation' \in Compilations({"none"})
    /\ tapped' = "v3"
    /\ UNCHANGED <<options, compiler, escaped, last, docs, failed>>

(* One document event: the handler runs to its end. *)
Deliver(webpackVersion) ==
    /\ \E htmlPluginData \in Payloads, callbackThrows \in BOOLEAN :
          LET done == Handler(options, webpackVersion, compilation, htmlPluginData,
                              callbackThrows)
          IN  /\ last' = [kind |-> "event", webpackVersion |-> webpackVersion,
                          htmlPluginData |-> htmlPluginData,
                          callbackThrows |-> callbackThrows,
                          run |-> done.run, callbacks |-> done.callbacks,
                          thrown |-> done.thrown]
              /\ failed' = (failed \/ done.run.threw # NoError)
    /\ docs' = docs + 1
    /\ UNCHANGED <<options, compiler, compilation, tapped, escaped>>

(* The host calls the handler tapped into the html-webpack-plugin hook. *)
HandleV4 ==
    /\ tapped = "v4"
    /\ docs < MaxDocs
    /\ Deliver("v4")

(* The host calls the 'html-webpack-plugin-before-html-processing' handler. *)
HandleV3 ==
    /\ tapped = "v3"
    /\ docs < MaxDocs
    /\ Deliver("v3")

Next == Apply \/ CompilationHook \/ CompilationPlugin \/ HandleV4 \/ HandleV3

Spec == Init /\ [][Next]_vars

(* addLinks called as a method, on any options, compilation and payload. *)
WebpackVersions == {"v3", "v4", "v5", "toString"}

InitAddLinks ==
    /\ options \in Options({"preload", "prefetch"}, {"allAssets", "asyncChunks"},
                           Whitelists, Blacklists, {Undefined, "font"}, {FALSE})
    /\ compiler = "none"
    /\ compilation \in Compilations({"none"})
    /\ tapped = "none"
    /\ escaped = NoError
    /\ last = [kind |-> "none"]
    /\ docs = 0
    /\ failed = FALSE

CallAddLinks ==
    /\ \E webpackVersion \in WebpackVersions, htmlPluginData \in Payloads :
          last' = [kind |-> "call", webpackVersion |-> webpackVersion,
                   htmlPluginData |-> htmlPluginData,
                   run |-> AddLinks(options, webpackVersion, compilation, htmlPluginData)]
    /\ UNCHANGED <<options, compiler, compilation, tapped, escaped, docs, failed>>

NextAddLinks == CallAddLinks

SpecAddLinks == InitAddLinks /\ [][NextAddLinks]_vars

----------------------------------------------------------------------------
(* The properties. *)

Called == last.kind = "call"

(* x comes strictly before y in lexicographic order of code units: x is a *)
(* proper prefix of y, or they first differ at k where x has the smaller. *)
LexBefore(x, y) ==
    \E k \in 1..Len(y) :
        /\ k - 1 <= Len(x)
        /\ \A m \in 1..(k - 1) : x[m] = y[m]
        /\ (Len(x) = k - 1 \/ CodeUnit(x[k]) < CodeUnit(y[k]))

Elements(seq) == {seq[i] : i \in 1..Len(seq)}

(* C1: the file list addLinks iterates to build the tags holds no path twice *)
(* and is in ascending lexicographic order, whatever the chunks (shared      *)
(* files, empty file lists) and the whitelist and blacklist.                 *)
C1_SortedWithoutDuplicates ==
    Called =>
        LET files == last.run.sortedFilteredFiles
        IN  \A i, j \in 1..Len(files) :
                i < j => files[i] # files[j] /\ LexBefore(files[i], files[j])

(* Two chunks share app.js and list their files out of order. *)
C1_Witness ==
    /\ Called
    /\ last.run.allFiles = <<FontWoff2, AppJs, AppJs, AppCss>>
    /\ last.run.sortedFilteredFiles = <<AppCss, AppJs, FontWoff2>>

(* C2: a file of the handled chunks is selected if and only if (the whitelist *)
(* is absent or one of its patterns matches) and (the blacklist is absent or  *)
(* none of its patterns matches); a present, empty whitelist selects nothing, *)
(* a present, empty blacklist rejects nothing.                                *)
C2_SelectedIffListsAllow ==
    Called /\ last.run.exit = "end" =>
        \A file \in Elements(last.run.allFiles) :
            LET white == options.fileWhitelist
                black == options.fileBlacklist
            IN  file \in Elements(last.run.sortedFilteredFiles) <=>
                    /\ ~white.defined \/ \E p \in Elements(white.patterns) : EndsWith(file, p.suffix)
                    /\ ~black.defined \/ \A p \in Elements(black.patterns) : ~EndsWith(file, p.suffix)

(* A whitelist that rejects app.css and an empty blacklist that rejects nothing. *)
C2_Witness ==
    /\ Called
    /\ options.fileWhitelist = List(<<JsPattern, Woff2Pattern>>)
    /\ options.fileBlacklist = List(<<>>)
    /\ last.run.allFiles = <<AppJs, AppCss, FontWoff2, AppJs>>
    /\ last.run.sortedFilteredFiles = <<AppJs, FontWoff2>>

AttributeNames(attributes) == {attributes[k][1] : k \in 1..Len(attributes)}

AttributeValue(attributes, name) ==
    attributes[CHOOSE k \in 1..Len(attributes) : attributes[k][1] = name][2]

(* C3: the attributes of every selected file have `as` and `crossorigin` only *)
(* when options.rel is "preload", and `crossorigin`, with the value           *)
(* "anonymous", exactly when rel is "preload" and the resolved `as` is "font". *)
C3_LinkDescriptorInvariant ==
    Called =>
        \A i \in 1..Len(last.run.attributes) :
            LET attributes == last.run.attributes[i]
                names == AttributeNames(attributes)
            IN  /\ "as" \in names => options.rel = "preload"
                /\ "crossorigin" \in names => options.rel = "preload"
                /\ "crossorigin" \in names <=>
                       /\ options.rel = "preload"
                       /\ "as" \in names
                       /\ AttributeValue(attributes, "as") = <<"font">>
                /\ "crossorigin" \in names =>
                       AttributeValue(attributes, "crossorigin") = <<"anonymous">>

(* A preload run over a script and a font: only the font is cross-origin. *)
C3_Witness ==
    /\ Called
    /\ options.rel = "preload"
    /\ options.as = Undefined
    /\ last.run.sortedFilteredFiles = <<AppJs, FontWoff2>>
    /\ AttributeNames(last.run.attributes[1]) = {"href", "rel", "as"}
    /\ AttributeNames(last.run.attributes[2]) = {"href", "rel", "as", "crossorigin"}

(* The scenario of C4: one chunk with files app.js, app.css, no whitelist or *)
(* blacklist, rel "preload", no `as` override, public path "/dist/".         *)
C4_Scenario ==
    /\ Called
    /\ last.run.exit = "end"
    /\ last.run.htmlChunks = <<[id |-> 1, files |-> <<AppJs, AppCss>>]>>
    /\ ~options.fileWhitelist.defined
    /\ ~options.fileBlacklist.defined
    /\ options.rel = "preload"
    /\ options.as = Undefined
    /\ PublicPath(compilation) = Dist

PreloadTag(href, as) ==
    [element |-> "link",
     rendered |-> <<<<"href", href>>, <<"rel", <<"preload">>>>, <<"as", <<as>>>>>>]

(* C4 as stated: the tag of /dist/app.js first, the tag of /dist/app.css second. *)
C4_ScriptFirst ==
    C4_Scenario =>
        last.run.links = <<PreloadTag(Dist \o AppJs, "script"), PreloadTag(Dist \o AppCss, "style")>>

(* C4, amended: in the scenario addLinks produces exactly two link tags, the  *)
(* tag of /dist/app.css (as="style") first and the tag of /dist/app.js        *)
(* (as="script") second, and hands them to the head injector in that order.   *)
C4_StyleFirst ==
    C4_Scenario =>
        /\ last.run.links = <<PreloadTag(Dist \o AppCss, "style"), PreloadTag(Dist \o AppJs, "script")>>
        /\ last.run.html = InsertLinksIntoHead(last.run.links, last.htmlPluginData.html)
        /\ last.run.html # last.htmlPluginData.html

C4_Witness == C4_Scenario /\ last.htmlPluginData.filename = "index.html"

NoStageRan(run) ==
    /\ run.extractCalls = 0
    /\ run.associationCalls = 0
    /\ run.attributes = <<>>
    /\ run.links = <<>>
    /\ run.injectCalls = 0

(* C5: when the document's file name is listed in options.excludeHtmlNames,   *)
(* addLinks leaves htmlPluginData.html as it was and runs none of the later   *)
(* stages (no chunk extraction, no association check, no tag, no injection),  *)
(* and, the version check passed, it returns the payload without an error.    *)
C5_ExcludedIsUntouched ==
    Called /\ Includes(options.excludeHtmlNames, last.htmlPluginData.filename) =>
        /\ last.run.html = last.htmlPluginData.html
        /\ NoStageRan(last.run)
        /\ last.webpackVersion \in DoesChunkBelongToHTMLKeys =>
               last.run.returned /\ last.run.threw = NoError

(* An excluded document of a compilation whose chunks would yield tags. *)
C5_Witness ==
    /\ Called
    /\ last.htmlPluginData.filename = "skip.html"
    /\ last.webpackVersion = "v4"
    /\ options.include = "allAssets"
    /\ ~options.fileWhitelist.defined
    /\ ~options.fileBlacklist.defined
    /\ Len(compilation.chunks) = 2
    /\ compilation.chunks[1].files # <<>>
    /\ last.run.returned

(* C9: with options.include 'allAssets' every extracted chunk is handled and *)
(* the association function is never consulted; in every other mode a chunk  *)
(* is handled, and its files are candidates, if and only if the association  *)
(* variant of the given version returns true for it against the document's   *)
(* assets.chunks.                                                            *)
C9_CandidateChunks ==
    Called /\ last.run.exit = "end" =>
        LET extracted == compilation.chunks
            belongs(chunk) ==
                DoesChunkBelongToHTML(last.webpackVersion, chunk, compilation,
                                      last.htmlPluginData.assets.chunks)
            handled == IF options.include = "allAssets" THEN Elements(extracted)
                       ELSE {chunk \in Elements(extracted) : belongs(chunk)}
        IN  /\ Elements(last.run.htmlChunks) = handled
            /\ Elements(last.run.allFiles) = UNION {Elements(chunk.files) : chunk \in handled}
            /\ options.include = "allAssets" =>
                   last.run.htmlChunks = extracted /\ last.run.associationCalls = 0
            /\ options.include # "allAssets" =>
                   last.run.associationCalls = Len(extracted)

(* Of two chunks with files, only the one in assets.chunks is handled. *)
C9_Witness ==
    /\ Called
    /\ options.include = "asyncChunks"
    /\ last.webpackVersion = "v3"
    /\ last.htmlPluginData.assets = Assets({1})
    /\ Len(compilation.chunks) = 2
    /\ compilation.chunks[2].files = <<FontWoff2, AppJs>>
    /\ last.run.htmlChunks = <<[id |-> 1, files |-> <<AppJs, AppCss>>]>>
    /\ last.run.allFiles = <<AppJs, AppCss>>

(* C6: for every version identifier that is not a supported association      *)
(* variant addLinks raises, before any other step, an error that names the   *)
(* supported values, and leaves the payload as it was; for every supported   *)
(* identifier no such error is raised.                                       *)
C6_UnsupportedVersionFailsFast ==
    Called =>
        IF last.webpackVersion \in DoesChunkBelongToHTMLKeys
        THEN last.run.threw.name # "AssertionError"
        ELSE /\ last.run.threw.name = "AssertionError"
             /\ last.run.threw.supported = DoesChunkBelongToHTMLKeys
             /\ last.run.exit = "assert"
             /\ NoStageRan(last.run)
             /\ last.run.html = last.htmlPluginData.html

(* C7: on a compiler with hooks, whichever html hook the host has and whether *)
(* or not options.HtmlWebpackPlugin is given, the compilation callback binds  *)
(* to the hook that exists; with neither hook it pushes the ordering error    *)
(* onto compilation.errors and registers no handler; no exception leaves it.  *)
C7_BindsOrReports ==
    compiler = "hooks" /\ compilation.created =>
        /\ escaped = NoError
        /\ IF compilation.htmlHook = "none"
           THEN tapped = "none" /\ Includes(compilation.errors, OrderingError)
           ELSE tapped = "v4"

Event == last.kind = "event"

(* C8: in every document event an error addLinks raises is passed to that    *)
(* event's callback as its error argument, in its only call, and does not    *)
(* leave the handler (only an exception of the callback itself does); the    *)
(* handler stays registered, and every event has the result addLinks gives   *)
(* for its payload alone, also after an earlier event failed.                *)
C8_FailureIsReportedAndIsolated ==
    Event =>
        /\ last.run.threw # NoError =>
               /\ last.callbacks = <<CallbackCall(last.run.threw, <<>>)>>
               /\ last.thrown # last.run.threw
               /\ ~last.callbackThrows => last.thrown = NoError
        /\ tapped = last.webpackVersion
        /\ last.run = AddLinks(options, last.webpackVersion, compilation, last.htmlPluginData)

(* A document gets its tags in the event after one in which addLinks raised. *)
C8_Witness ==
    /\ Event
    /\ failed
    /\ last.run.threw = NoError
    /\ last.run.links # <<>>
    /\ last.run.html # last.htmlPluginData.html

(* C10: in every document event the host's callback is called exactly once,  *)
(* with (null, payload) when addLinks succeeds or with (error) when it       *)
(* fails, also when the call of the callback itself raises an error.         *)
C10_CallbackOnce ==
    Event =>
        /\ Len(last.callbacks) = 1
        /\ last.callbacks[1] =
               IF last.run.threw = NoError
               THEN CallbackCall(NoError, last.run.html)
               ELSE CallbackCall(last.run.threw, <<>>)

====
